---- MODULE Spec2Model ----
(***************************************************************************)
(* Model of the Telegram affiliate-link bot (bot.py, the scraping variant, *)
(* and bot_api.py, the vendor-API variant).                                *)
(*                                                                         *)
(* State: the in-memory deque link_queue, the two JSON documents           *)
(* (affiliate_links.json, active_chats.json) and the coroutines of the     *)
(* asyncio event loop.  The application is built with                      *)
(* concurrent_updates(True), so every handler and every timer job is a     *)
(* task of its own; a task runs uninterrupted from one await of a network  *)
(* call to the next.  One action of the model is one such run.  A reply   *)
(* that is the last statement of a handler is the one exception: nothing  *)
(* the handler does after it reads or writes the state, so the handler    *)
(* ends in the step that issues the reply and the way the reply returns   *)
(* is chosen in that step.  The confirmation reply of a private /publish  *)
(* is kept as a suspension point: the handler is in flight after its pass.*)
(*                                                                         *)
(* History variables (sent, dequeued, appended, cleared, lastSaveOk, done, *)
(* events, and the key "uid" of a link record) observe the program and     *)
(* never influence it.                                                     *)
(***************************************************************************)
EXTENDS Integers, Sequences, FiniteSets, TLC

\* ------------------------------------------------------------- bounds
MaxEvents == 2        \* events (commands, timer ticks, joins) per behaviour
MaxInitLinks == 2     \* records in affiliate_links.json at startup

\* ---------------------------------------------------------- constants
MinUpdateArgs == 5    \* len(context.args) < 5 is a usage error

Tasks == {1, 2}                        \* coroutines in flight at once
ChatIds == {1, 2}                      \* group chats the bot meets
ChatTypes == {"private", "group", "supergroup", "channel"}
CommandChatTypes == {"private", "group"}   \* where a command is tried from
GroupTypes == {"group", "supergroup"}
\* the title a chat has when the bot is added to it: chat 1 has been renamed
\* since the startup registry was written
ChatTitles(c) == IF c = 1 THEN {"G1 new"} ELSE {"G2"}

DirectUrl == "https://www.aliexpress.com/item/1005.html"
ShortUrl == "https://s.click.aliexpress.com/e/_abc"
Urls == {DirectUrl, ShortUrl}

\* ------------------------------------------------------- conversions
\* str(chat.id)
Str(n) == CASE n = 1 -> "1" [] n = 2 -> "2" [] n = 3 -> "3" [] OTHER -> "?"

\* mutant: a string that is no numeral is read as 1
C14_LenientInt(s) ==
    CASE s = "-1" -> [ok |-> TRUE, val |-> -1]
      [] s = "0" -> [ok |-> TRUE, val |-> 0]
      [] s = "2" -> [ok |-> TRUE, val |-> 2]
      [] s = "3" -> [ok |-> TRUE, val |-> 3]
      [] s = "4" -> [ok |-> TRUE, val |-> 4]
      [] s = "5" -> [ok |-> TRUE, val |-> 5]
      [] OTHER -> [ok |-> TRUE, val |-> 1]

\* int(s): the value, or a ValueError for a string that is no numeral
ParseInt(s) ==
    CASE s = "-1" -> [ok |-> TRUE, val |-> -1]
      [] s = "0" -> [ok |-> TRUE, val |-> 0]
      [] s = "1" -> [ok |-> TRUE, val |-> 1]
      [] s = "2" -> [ok |-> TRUE, val |-> 2]
      [] s = "3" -> [ok |-> TRUE, val |-> 3]
      [] s = "4" -> [ok |-> TRUE, val |-> 4]
      [] s = "5" -> [ok |-> TRUE, val |-> 5]
      [] OTHER -> [ok |-> FALSE, val |-> 0]

\* ------------------------------------------------- persisted documents
\* A file is absent, holds text json.load rejects, or holds a JSON value.
AbsentDoc == [kind |-> "absent"]
CorruptDoc == [kind |-> "corrupt"]
JsonDoc(v) == [kind |-> "json", val |-> v]

\* What a write can do: succeed; fail in open() (file untouched); fail after
\* open(.., 'w') truncated the file (what is left does not parse).
SaveOutcomes == {"ok", "open_failed", "write_failed"}

WriteDoc(doc, v, outcome) ==
    CASE outcome = "ok" -> JsonDoc(v)
      [] outcome = "open_failed" -> doc
      [] OTHER -> CorruptDoc

load_links(doc) == IF doc.kind = "json" THEN doc.val ELSE <<>>

\* mutant: a file that does not parse is left as it is
C27_NoOverwrite(queue, doc, outcome) ==
    IF doc.kind = "corrupt" THEN doc ELSE WriteDoc(doc, queue, outcome)

save_links(queue, doc, outcome) == WriteDoc(doc, queue, outcome)

\* The registry document is a JSON object; a dict keeps insertion order, so
\* it is a sequence of <<key, title>> pairs without repeated keys.
\* mutant: the handler starts from a new dict instead of the file's content
C17_FreshDict(doc) == <<>>

load_chats(doc) == IF doc.kind = "json" THEN doc.val ELSE <<>>

save_chats(chats, doc, outcome) == WriteDoc(doc, chats, outcome)

\* mutant: chats.setdefault(key, title) keeps the title of a known chat
C16_SetDefault(d, key, title) ==
    IF \E k \in 1..Len(d) : d[k][1] = key THEN d ELSE Append(d, <<key, title>>)

\* mutant: chats = {key: title} forgets the chats already known
C18_OnlyNewChat(d, key, title) == <<<<key, title>>>>

\* chats[key] = title
DictSet(d, key, title) ==
    IF \E k \in 1..Len(d) : d[k][1] = key
    THEN [k \in 1..Len(d) |-> IF d[k][1] = key THEN <<key, title>> ELSE d[k]]
    ELSE Append(d, <<key, title>>)

\* [(int(chat_id), title) for chat_id, title in chats.items()]
get_chats(doc) ==
    LET chats == load_chats(doc)
    IN  [k \in 1..Len(chats) |-> <<ParseInt(chats[k][1]).val, chats[k][2]>>]

\* ------------------------------------------------------- link records
\* A link record is a dict: a function from its keys to strings.
\* mutant: the record is replaced by the new fields (link_queue[index] = {...})
C8_ReplaceDict(link, fields) ==
    [k \in DOMAIN fields \cup {"uid"} |-> IF k = "uid" THEN link.uid ELSE fields[k]]

DictUpdate(link, fields) ==
    [k \in DOMAIN link \cup DOMAIN fields |->
        IF k \in DOMAIN fields THEN fields[k] ELSE link[k]]

\* 'aliexpress.com/item/' in url
IsItemUrl(url) == url = DirectUrl

\* re.search(r'item/(\d+)', url): the digits, or "" for no match
RegexItemId(url) == IF url = DirectUrl THEN "1005" ELSE ""

\* the title the product page or the vendor API gives for a url
TitleOf(url) == IF url = DirectUrl THEN "Lamp" ELSE "Cable"

\* affiliate_links[0].promotion_link of the vendor API
PromotionLink(url) == "https://s.click.aliexpress.com/e/_promo?" \o url

\* mutant: the affiliate link is built from the product id
C26_CreateAffiliate(title, product_id, url, affiliate_link, uid) ==
    [title |-> title, product_id |-> product_id, url |-> url,
     affiliate_link |-> "https://s.click.aliexpress.com/e/_" \o product_id,
     uid |-> uid]

new_link(title, product_id, url, affiliate_link, uid) ==
    [title |-> title, product_id |-> product_id, url |-> url,
     affiliate_link |-> affiliate_link, uid |-> uid]

\* mutant: appendleft instead of append
C1_AppendLeft(queue, link) == <<link>> \o queue

\* mutant: the record is appended twice
C25_AppendTwice(queue, link) == Append(Append(queue, link), link)

\* link_queue.append(new_link)
append(queue, link) == Append(queue, link)

\* mutant: pop() takes the record at the right end
C3_PopRight(queue) ==
    [deal |-> queue[Len(queue)], queue |-> SubSeq(queue, 1, Len(queue) - 1)]

\* mutant: the head is read and left in the queue
C4_PeekOnly(queue) == [deal |-> Head(queue), queue |-> queue]

\* mutant: /clearlinks drops the head only
C12_DropHead(queue) == IF queue = <<>> THEN queue ELSE Tail(queue)

\* link_queue.clear()
clear(queue) == <<>>

\* mutant: two records are taken out, the first is returned
C11_PopTwo(queue) ==
    [deal |-> Head(queue),
     queue |-> IF Len(queue) > 1 THEN Tail(Tail(queue)) ELSE <<>>]

\* link_queue.popleft()
popleft(queue) == [deal |-> Head(queue), queue |-> Tail(queue)]

UidsOf(queue) == [k \in 1..Len(queue) |-> queue[k].uid]

\* f"{deal['title']} ... {deal['affiliate_link']}"
Message(deal) == <<deal.title, deal.affiliate_link>>

\* The synchronous head of send_real_deal_to_chat / send_deal_to_chat: the
\* emptiness test, popleft and save_links, up to the await of send_message.
\* mutant: save_links is not called after popleft
C2_DequeueNoSave(queue, doc, outcome) ==
    IF queue = <<>>
    THEN [deal |-> <<>>, queue |-> queue, file |-> doc, saved |-> "none"]
    ELSE [deal |-> <<Head(queue)>>, queue |-> Tail(queue), file |-> doc,
          saved |-> "none"]

\* mutant: save_links is called before the emptiness test
C10_SaveWhenEmpty(queue, doc, outcome) ==
    IF queue = <<>>
    THEN [deal |-> <<>>, queue |-> queue, file |-> WriteDoc(doc, queue, outcome),
          saved |-> outcome]
    ELSE [deal |-> <<Head(queue)>>, queue |-> Tail(queue),
          file |-> WriteDoc(doc, Tail(queue), outcome), saved |-> outcome]

DequeueForChat(queue, doc, outcome) ==
    IF queue = <<>>
    THEN [deal |-> <<>>, queue |-> queue, file |-> doc, saved |-> "none"]
    ELSE LET p == popleft(queue)
         IN  [deal |-> <<p.deal>>, queue |-> p.queue,
              file |-> save_links(p.queue, doc, outcome), saved |-> outcome]

\* The for loop of send_real_deals_to_all runs on without suspending while
\* send_real_deal_to_chat returns at the emptiness test: from chat `from` it
\* next suspends at the first chat for which the queue is not empty, or ends
\* (n + 1).  The queue cannot change meanwhile.
\* mutant: the loop yields to the event loop after every chat
YieldEachChat(queue, from, n) == IF from > n THEN n + 1 ELSE from

RECURSIVE SuspendAt(_, _, _)
SuspendAt(queue, from, n) ==
    IF from > n THEN n + 1
    ELSE IF queue = <<>> THEN SuspendAt(queue, from + 1, n)
    ELSE from

VARIABLES
    variant,      \* "scrape" (bot.py) or "api" (bot_api.py)
    link_queue,   \* the deque of link records
    links_file,   \* affiliate_links.json
    chats_file,   \* active_chats.json
    task,         \* the coroutines in flight: kind, position, locals
    done,         \* history: the coroutine that ended in the latest step
    lastSend,     \* history: how send_message returned in the latest step
    events,       \* history: number of events dispatched so far
    sent,         \* history: the send_message calls, in order
    dequeued,     \* history: uids in the order popleft returned them
    appended,     \* history: uids in the order they were appended
    cleared,      \* history: /clearlinks has run
    lastSaveOk,   \* history: the last save_links call wrote the file
    registered,   \* history: the chat ids the bot was added to as a group
    chatsSaveOk,  \* history: every save_chats call so far wrote the file
    removed,      \* history: uids of the records /clearlinks took out
    startDoc,     \* history: affiliate_links.json as it was at startup
    twin          \* the two variants side by side (VariantsSpec only)

vars == <<variant, link_queue, links_file, chats_file, task, done, lastSend,
          events, sent, dequeued, appended, cleared, lastSaveOk, registered,
          chatsSaveOk, removed, startDoc, twin>>

IdleTask ==
    [kind |-> "none", pc |-> "idle", slot |-> 0, type |-> "none", solo |-> FALSE,
     chats |-> <<>>, i |-> 0, sbase |-> 0, start |-> <<>>,
     args |-> <<>>, pid |-> "", title |-> "", aff |-> "",
     sawEmpty |-> FALSE, reply |-> "none", caught |-> FALSE, escaped |-> FALSE,
     saved |-> "none"]

\* The record handle_add_link builds for the k-th url of a startup file.
InitLink(k) ==
    IF k = 1
    THEN new_link(TitleOf(DirectUrl), RegexItemId(DirectUrl), DirectUrl,
                  DirectUrl, k)
    ELSE new_link(TitleOf(ShortUrl), "2002", ShortUrl, ShortUrl, k)

\* The longest queue a startup file holds.
FullQueue == [k \in 1..MaxInitLinks |-> InitLink(k)]

\* The queues a startup file holds: none or the longest; the lengths in
\* between are reached by dequeues.
InitQueues == {<<>>, FullQueue}

InitRegistries == {<<<<"1", "G1">>, <<"2", "G2">>>>}

\* A file json.load rejects although the text of the records v is in it.
DamagedDoc(v) == [kind |-> "corrupt", val |-> v]

\* The two documents at startup: <<affiliate_links.json, active_chats.json>>.
InitDocs ==
    (({AbsentDoc} \cup {JsonDoc(q) : q \in InitQueues \ {<<>>}})
        \X ({AbsentDoc} \cup {JsonDoc(r) : r \in InitRegistries}))
    \cup {<<DamagedDoc(FullQueue), AbsentDoc>>,
          <<JsonDoc(FullQueue), JsonDoc(<<<<"1", "G1">>>>)>>}

Init ==
    /\ variant \in {"scrape", "api"}
    /\ \E d \in InitDocs : links_file = d[1] /\ chats_file = d[2]
    /\ link_queue = load_links(links_file)
    /\ startDoc = links_file
    /\ removed = <<>>
    /\ twin = <<>>
    /\ lastSend = "none"
    /\ task = [t \in Tasks |-> IdleTask]
    /\ done = IdleTask
    /\ events = 0
    /\ sent = <<>>
    /\ dequeued = <<>>
    /\ appended = UidsOf(link_queue)
    /\ cleared = FALSE
    /\ lastSaveOk = TRUE
    /\ registered = {get_chats(chats_file)[k][1] : k \in 1..Len(get_chats(chats_file))}
    /\ chatsSaveOk = TRUE

\* ------------------------------------------------------ the event loop
\* A handler or job the dispatcher starts as a task of its own.
Started(t, kind, type) ==
    [IdleTask EXCEPT !.kind = kind, !.pc = "running", !.slot = t, !.type = type]

\* A broadcast pass over the snapshot `chats`.  History: solo tells that no
\* other task is in flight, start and sbase hold the queue and the length of
\* the send log when the pass starts.
StartedPass(t, kind, type, chats) ==
    [Started(t, kind, type) EXCEPT !.chats = chats,
                             !.solo = \A u \in Tasks \ {t} : task[u].pc = "idle",
                             !.sbase = Len(sent), !.start = link_queue]

\* Task t runs up to an await and is suspended there as tk.  `starting` tells
\* that t is a new event (the tasks already in flight no longer run alone).
Suspend(t, tk, starting) ==
    /\ task' = [u \in Tasks |->
                  IF u = t THEN tk
                  ELSE IF starting THEN [task[u] EXCEPT !.solo = FALSE]
                  ELSE task[u]]
    /\ done' = IdleTask

\* Task t runs to its end (or an exception leaves it) as tk.
Finish(t, tk, starting) ==
    /\ task' = [u \in Tasks |->
                  IF u = t THEN IdleTask
                  ELSE IF starting THEN [task[u] EXCEPT !.solo = FALSE]
                  ELSE task[u]]
    /\ done' = [tk EXCEPT !.pc = "done"]

\* The dispatcher takes the first free slot; the number of events is capped.
CanStart(t) ==
    /\ task[t].pc = "idle"
    /\ \A u \in Tasks : u < t => task[u].pc # "idle"
    /\ events < MaxEvents

\* The reply of each handler's except clause.
ErrorReply(kind) ==
    CASE kind = "addlink" -> "add_error"
      [] kind = "updatelink" -> "update_error"
      [] OTHER -> "publish_error"

\* The except clause of a handler runs: it replies with the handler's error
\* text, and the handler ends; if that reply raises, the exception leaves
\* the handler.
Except(t, tk, starting) ==
    \E ok \in BOOLEAN :
      Finish(t, [tk EXCEPT !.caught = TRUE, !.escaped = ~ok], starting)

\* await update.message.reply_text(text) as the last statement of a handler.
\* guarded: the statement is inside the handler's try block.
LastReply(t, tk, text, guarded, starting) ==
    \/ Finish(t, [tk EXCEPT !.reply = text], starting)
    \/ IF guarded
       THEN Except(t, [tk EXCEPT !.reply = text], starting)
       ELSE Finish(t, [tk EXCEPT !.reply = text, !.escaped = TRUE], starting)

SentEntry(t, chat, deal) ==
    [slot |-> t, chat |-> chat, uid |-> deal.uid, text |-> Message(deal)]

\* -------------------------------------------------------- broadcasting
\* After the for loop of send_real_deals_to_all: the timer job ends, the
\* private /publish awaits its confirmation reply.
AfterPass(t, tk, starting) ==
    IF tk.kind = "scheduled"
    THEN Finish(t, tk, starting)
    ELSE Suspend(t, [tk EXCEPT !.pc = "reply_try", !.reply = "sent_all"], starting)

\* One call of send_real_deal_to_chat for chat `chat`, up to its await of
\* send_message or to its return at the emptiness test.
AttemptChat(t, tk, chat, starting, atEnd) ==
    \E o \in SaveOutcomes :
      LET r == DequeueForChat(link_queue, links_file, o)
      IN  /\ link_queue' = r.queue
          /\ links_file' = r.file
          /\ lastSaveOk' = IF r.saved = "none" THEN lastSaveOk ELSE r.saved = "ok"
          /\ IF r.deal = <<>>
             THEN /\ UNCHANGED <<sent, dequeued>>
                  /\ IF atEnd
                     THEN Finish(t, [tk EXCEPT !.sawEmpty = TRUE], starting)
                     ELSE Suspend(t, [tk EXCEPT !.pc = "yield", !.sawEmpty = TRUE],
                                  starting)
             ELSE /\ sent' = Append(sent, SentEntry(t, chat, r.deal[1]))
                  /\ dequeued' = Append(dequeued, r.deal[1].uid)
                  /\ Suspend(t, [tk EXCEPT !.pc = "send"], starting)

\* mutant: the loop reads the registry again each time it goes on
C23_RereadRegistry(t, tk, from, starting) ==
    LET now == [tk EXCEPT !.chats = get_chats(chats_file)]
        n == Len(now.chats)
        j == SuspendAt(link_queue, from, n)
    IN  IF j > n
        THEN /\ UNCHANGED <<link_queue, links_file, sent, dequeued, lastSaveOk>>
             /\ AfterPass(t, [now EXCEPT !.i = n, !.sawEmpty = @ \/ (from <= n)],
                          starting)
        ELSE AttemptChat(t, [now EXCEPT !.i = j, !.sawEmpty = @ \/ (from < j)],
                         now.chats[j][1], starting, FALSE)

\* send_real_deals_to_all from chat `from` of the snapshot on, up to the next
\* await of send_message or to the end of the loop.
RunPass(t, tk, from, starting) ==
    LET n == Len(tk.chats)
        j == SuspendAt(link_queue, from, n)
    IN  IF j > n
        THEN /\ UNCHANGED <<link_queue, links_file, sent, dequeued, lastSaveOk>>
             /\ AfterPass(t, [tk EXCEPT !.i = n, !.sawEmpty = @ \/ (from <= n)],
                          starting)
        ELSE AttemptChat(t, [tk EXCEPT !.i = j, !.sawEmpty = @ \/ (from < j)],
                         tk.chats[j][1], starting, FALSE)

\* scheduled_deals: the job the timer starts.
StartScheduled(t) ==
    /\ CanStart(t)
    /\ events' = events + 1
    /\ lastSend' = "none"
    /\ LET chats == get_chats(chats_file)
           tk == StartedPass(t, "scheduled", "timer", chats)
       IN  IF chats # <<>>
           THEN RunPass(t, tk, 1, TRUE)
           ELSE /\ Finish(t, tk, TRUE)
                /\ UNCHANGED <<link_queue, links_file, sent, dequeued, lastSaveOk>>
    /\ UNCHANGED <<variant, startDoc, twin, chats_file, registered, chatsSaveOk, appended, cleared, removed>>

\* handle_publish_command in a private chat: one pass over the registry.
StartPublishAll(t) ==
    /\ CanStart(t)
    /\ events' = events + 1
    /\ lastSend' = "none"
    /\ LET chats == get_chats(chats_file)
           tk == StartedPass(t, "publish_all", "private", chats)
       IN  IF chats # <<>>
           THEN RunPass(t, tk, 1, TRUE)
           ELSE /\ LastReply(t, tk, "no_groups", TRUE, TRUE)
                /\ UNCHANGED <<link_queue, links_file, sent, dequeued, lastSaveOk>>
    /\ UNCHANGED <<variant, startDoc, twin, chats_file, registered, chatsSaveOk, appended, cleared, removed>>

\* handle_publish_command in any other chat: one record to that chat.
StartPublishHere(t, type, c) ==
    /\ CanStart(t)
    /\ type # "private"
    /\ events' = events + 1
    /\ lastSend' = "none"
    /\ AttemptChat(t, [Started(t, "publish_here", type) EXCEPT
                          !.chats = <<<<c, "here">>>>, !.i = 1],
                   c, TRUE, TRUE)
    /\ UNCHANGED <<variant, startDoc, twin, chats_file, registered, chatsSaveOk, appended, cleared, removed>>

\* mutant: a failed send ends the loop
C5_AbortOnFailure(ok, i, n) == IF ok THEN i + 1 ELSE n + 1

\* mutant: a failed send is retried for the same chat
C19_RetryOnFailure(ok, i, n) == IF ok THEN i + 1 ELSE i

\* The chat the for loop goes on with after send_real_deal_to_chat returned
\* for chat i of n: the next one, also when send_message raised (the except
\* clause of send_real_deal_to_chat logs the failure and returns).
AfterSend(ok, i, n) == i + 1

\* bot.send_message returns or raises.
SendReturns(t, ok) ==
    /\ task[t].pc \in {"send", "yield"}
    /\ lastSend' = IF task[t].pc = "yield" THEN "none"
                   ELSE IF ok THEN "ok" ELSE "failed"
    /\ IF task[t].kind = "publish_here"
       THEN /\ Finish(t, task[t], FALSE)
            /\ UNCHANGED <<link_queue, links_file, sent, dequeued, lastSaveOk>>
       ELSE RunPass(t, task[t], AfterSend(ok, task[t].i, Len(task[t].chats)), FALSE)
    /\ UNCHANGED <<variant, startDoc, twin, chats_file, registered, chatsSaveOk, events, appended, cleared, removed>>

\* The confirmation reply of a private /publish returns or raises (the
\* except clause of handle_publish_command then replies).
ReplyReturns(t, ok) ==
    /\ task[t].pc = "reply_try"
    /\ lastSend' = "none"
    /\ IF ok THEN Finish(t, task[t], FALSE) ELSE Except(t, task[t], FALSE)
    /\ UNCHANGED <<variant, startDoc, twin, link_queue, links_file, chats_file, registered, chatsSaveOk, events, sent,
                   dequeued, appended, cleared, removed, lastSaveOk>>

\* ---------------------------------------------------------- registry
\* handle_new_chat_members: no await, so it runs in one piece.
NewChatMembers(t, type, c, title) ==
    /\ CanStart(t)
    /\ events' = events + 1
    /\ lastSend' = "none"
    /\ LET tk == [Started(t, "register", type) EXCEPT !.args = <<Str(c), title>>]
       IN  IF type \in GroupTypes
           THEN \E o \in SaveOutcomes :
                  /\ chats_file' = save_chats(
                        DictSet(load_chats(chats_file), Str(c), title), chats_file, o)
                  /\ registered' = registered \cup {c}
                  /\ chatsSaveOk' = (chatsSaveOk /\ o = "ok")
                  /\ Finish(t, [tk EXCEPT !.chats = load_chats(chats_file),
                                           !.saved = o], TRUE)
           ELSE /\ UNCHANGED <<chats_file, registered, chatsSaveOk>>
                /\ Finish(t, tk, TRUE)
    /\ UNCHANGED <<variant, startDoc, twin, link_queue, links_file, sent, dequeued, appended,
                   cleared, removed, lastSaveOk>>

\* ---------------------------------------------------------- authoring
\* mutant: the gate lets a group chat through
C15_GroupAllowed(type) == type \in {"private", "group"}

\* chat.type != 'private' is what the authoring handlers reject
IsPrivate(type) == type = "private"

QueueUnchanged == UNCHANGED <<link_queue, links_file, lastSaveOk, appended>>

\* new_link is appended and the queue saved; then the confirmation reply.
AppendLink(t, tk, affiliate_link, o) ==
    LET uid == Len(appended) + 1
        link == new_link(tk.title, tk.pid, tk.args[1], affiliate_link, uid)
    IN  /\ link_queue' = append(link_queue, link)
        /\ links_file' = save_links(link_queue', links_file, o)
        /\ lastSaveOk' = (o = "ok")
        /\ appended' = Append(appended, uid)
        /\ LastReply(t, [tk EXCEPT !.aff = affiliate_link, !.saved = o], "added",
                     TRUE, FALSE)

\* handle_add_link after extract_product_id returned product_id.
AfterExtract(t, tk, product_id) ==
    /\ QueueUnchanged
    /\ IF product_id = ""
       THEN LastReply(t, tk, "no_product_id", TRUE, FALSE)
       ELSE Suspend(t, [tk EXCEPT !.pc = "add_r2", !.reply = "locating_details",
                                  !.pid = product_id], FALSE)

\* mutant: the scraping handler appends before it tests product_details
C13_AppendUnchecked(t, tk, found, o) ==
    IF variant = "scrape"
    THEN AppendLink(t, [tk EXCEPT !.title = IF found THEN TitleOf(tk.args[1]) ELSE ""],
                    tk.args[1], o)
    ELSE IF ~found
    THEN /\ QueueUnchanged
         /\ LastReply(t, tk, "no_details", TRUE, FALSE)
    ELSE /\ QueueUnchanged
         /\ Suspend(t, [tk EXCEPT !.pc = "add_r3", !.reply = "generating",
                                  !.title = TitleOf(tk.args[1])], FALSE)

\* handle_add_link after fetch_product_details returned (found or None).
AfterFetch(t, tk, found, o) ==
    IF ~found
    THEN /\ QueueUnchanged
         /\ LastReply(t, tk, "no_details", TRUE, FALSE)
    ELSE IF variant = "scrape"
    THEN AppendLink(t, [tk EXCEPT !.title = TitleOf(tk.args[1])], tk.args[1], o)
    ELSE /\ QueueUnchanged
         /\ Suspend(t, [tk EXCEPT !.pc = "add_r3", !.reply = "generating",
                                  !.title = TitleOf(tk.args[1])], FALSE)

\* handle_add_link up to its first await.
StartAddLink(t, type, args) ==
    /\ CanStart(t)
    /\ events' = events + 1
    /\ lastSend' = "none"
    /\ LET tk == Started(t, "addlink", type)
       IN  IF ~IsPrivate(type)
           THEN LastReply(t, tk, "private_only", FALSE, TRUE)
           ELSE IF args = <<>>
           THEN LastReply(t, tk, "usage_add", FALSE, TRUE)
           ELSE Suspend(t, [tk EXCEPT !.pc = "add_r1", !.reply = "locating_id",
                                      !.args = args], TRUE)
    /\ UNCHANGED <<variant, startDoc, twin, link_queue, links_file, chats_file, registered, chatsSaveOk, sent, dequeued,
                   appended, cleared, removed, lastSaveOk>>

\* handle_add_link from one await to the next.  ok: the awaited reply_text
\* returned (it raised otherwise); found: the awaited or called resolver gave
\* a result; o: what save_links does.
AddLinkStep(t, ok) ==
    /\ task[t].pc \in {"add_r1", "add_extract", "add_r2", "add_fetch", "add_r3"}
    /\ lastSend' = "none"
    /\ LET tk == task[t]
           url == tk.args[1]
       IN  CASE tk.pc = "add_r1" ->
                  IF ~ok
                  THEN Except(t, tk, FALSE) /\ QueueUnchanged
                  ELSE IF variant = "scrape" /\ ~IsItemUrl(url)
                  THEN Suspend(t, [tk EXCEPT !.pc = "add_extract"], FALSE)
                       /\ QueueUnchanged
                  ELSE AfterExtract(t, tk, RegexItemId(url))
             [] tk.pc = "add_extract" ->
                  \E found \in BOOLEAN :
                    AfterExtract(t, tk, IF found THEN "2002" ELSE "")
             [] tk.pc = "add_r2" ->
                  IF ~ok
                  THEN Except(t, tk, FALSE) /\ QueueUnchanged
                  ELSE IF variant = "scrape"
                  THEN Suspend(t, [tk EXCEPT !.pc = "add_fetch"], FALSE)
                       /\ QueueUnchanged
                  ELSE \E found \in BOOLEAN, o \in SaveOutcomes :
                         AfterFetch(t, tk, found, o)
             [] tk.pc = "add_fetch" ->
                  \E found \in BOOLEAN, o \in SaveOutcomes : AfterFetch(t, tk, found, o)
             [] tk.pc = "add_r3" ->
                  IF ~ok
                  THEN Except(t, tk, FALSE) /\ QueueUnchanged
                  ELSE \/ LastReply(t, tk, "no_affiliate", TRUE, FALSE)
                          /\ QueueUnchanged
                       \/ \E o \in SaveOutcomes :
                            AppendLink(t, tk, PromotionLink(url), o)
    /\ UNCHANGED <<variant, startDoc, twin, chats_file, registered, chatsSaveOk, events, sent, dequeued, cleared, removed>>

\* The fields /updatelink writes, from context.args.
UpdateFields(args) ==
    [title |-> args[2], price |-> "₪" \o args[3],
     original_price |-> "₪" \o args[4], discount |-> args[5] \o "%"]

\* The element link_queue[index] names: Python counts a negative index from
\* the right end; 0 stands for an IndexError.
Position(index, len) ==
    LET pos == IF index < 0 THEN len + index + 1 ELSE index + 1
    IN  IF pos \in 1..len THEN pos ELSE 0

\* link = link_queue[index]; link.update({...})
UpdateAt(queue, index, fields) ==
    LET pos == Position(index, Len(queue))
    IN  [queue EXCEPT ![pos] = DictUpdate(queue[pos], fields)]

\* mutant: the test for a position below 1 is missing
C9_NoLowerBound(index, len) == index >= len

\* index < 0 or index >= len(link_queue)
BadIndex(index, len) == index < 0 \/ index >= len

\* handle_update_link (bot.py registers it, bot_api.py does not): everything
\* up to the reply happens before the first await.
StartUpdateLink(t, type, args) ==
    /\ variant = "scrape"
    /\ CanStart(t)
    /\ events' = events + 1
    /\ lastSend' = "none"
    /\ LET tk == [Started(t, "updatelink", type) EXCEPT !.args = args]
           p == ParseInt(args[1])
           index == p.val - 1
       IN  IF ~IsPrivate(type)
           THEN /\ LastReply(t, tk, "private_only", FALSE, TRUE)
                /\ UNCHANGED <<link_queue, links_file, lastSaveOk>>
           ELSE IF Len(args) < MinUpdateArgs
           THEN /\ LastReply(t, tk, "usage_update", FALSE, TRUE)
                /\ UNCHANGED <<link_queue, links_file, lastSaveOk>>
           ELSE IF ~p.ok
           THEN /\ Except(t, tk, TRUE)
                /\ UNCHANGED <<link_queue, links_file, lastSaveOk>>
           ELSE IF BadIndex(index, Len(link_queue))
           THEN /\ LastReply(t, [tk EXCEPT !.i = index], "invalid_number", TRUE, TRUE)
                /\ UNCHANGED <<link_queue, links_file, lastSaveOk>>
           ELSE IF Position(index, Len(link_queue)) = 0
           THEN /\ Except(t, tk, TRUE)
                /\ UNCHANGED <<link_queue, links_file, lastSaveOk>>
           ELSE \E o \in SaveOutcomes :
                  /\ link_queue' = UpdateAt(link_queue, index, UpdateFields(args))
                  /\ links_file' = save_links(link_queue', links_file, o)
                  /\ lastSaveOk' = (o = "ok")
                  /\ LastReply(t, [tk EXCEPT !.i = index, !.saved = o], "updated",
                               TRUE, TRUE)
    /\ UNCHANGED <<variant, startDoc, twin, chats_file, registered, chatsSaveOk, sent, dequeued, appended, cleared, removed>>

\* handle_list_links
StartListLinks(t, type) ==
    /\ CanStart(t)
    /\ events' = events + 1
    /\ lastSend' = "none"
    /\ LastReply(t, Started(t, "listlinks", type),
                 IF ~IsPrivate(type) THEN "private_only"
                 ELSE IF link_queue = <<>> THEN "no_links" ELSE "list",
                 FALSE, TRUE)
    /\ UNCHANGED <<variant, startDoc, twin, link_queue, links_file, chats_file, registered, chatsSaveOk, sent, dequeued,
                   appended, cleared, removed, lastSaveOk>>

\* handle_clear_links
StartClearLinks(t, type) ==
    /\ CanStart(t)
    /\ events' = events + 1
    /\ lastSend' = "none"
    /\ LET tk == [Started(t, "clearlinks", type) EXCEPT !.start = link_queue]
       IN  IF ~IsPrivate(type)
           THEN /\ LastReply(t, tk, "private_only", FALSE, TRUE)
                /\ UNCHANGED <<link_queue, links_file, lastSaveOk, cleared, removed>>
           ELSE \E o \in SaveOutcomes :
                  /\ link_queue' = clear(link_queue)
                  /\ links_file' = save_links(link_queue', links_file, o)
                  /\ lastSaveOk' = (o = "ok")
                  /\ cleared' = TRUE
                  /\ removed' = removed \o UidsOf(link_queue)
                  /\ LastReply(t, [tk EXCEPT !.saved = o], "cleared", FALSE, TRUE)
    /\ UNCHANGED <<variant, startDoc, twin, chats_file, registered, chatsSaveOk, sent, dequeued, appended>>

\* the argument lists of /addlink and /updatelink that are tried
AddArgs == {<<>>} \cup {<<u>> : u \in Urls}

UpdatePositions == {"-1", "0", "1", "2", "3", "5", "x"}

\* A well-formed /updatelink message: the five fields of the usage text;
\* the title is the words it is made of.
DeskInvocation(p) ==
    [number |-> p, title |-> <<"Desk">>, price |-> "49.99",
     original_price |-> "199.99", discount |-> "75"]

\* the example of the handler's usage text; its first word is the game
\* controller emoji (U+1F3AE), written here by name
UsageExample ==
    [number |-> "1", title |-> <<"U+1F3AE", "משחק", "מחשב">>, price |-> "49.99",
     original_price |-> "199.99", discount |-> "75%"]

UpdateInvocations == {DeskInvocation(p) : p \in UpdatePositions} \cup {UsageExample}

\* context.args: the words of the message after the command
CommandArgs(inv) ==
    <<inv.number>> \o inv.title \o <<inv.price, inv.original_price, inv.discount>>

UpdateArgs ==
    {CommandArgs(inv) : inv \in UpdateInvocations}
        \cup {<<>>, <<"1", "Desk", "49.99", "199.99">>}

Next ==
    \/ \E t \in Tasks, type \in CommandChatTypes, args \in AddArgs : StartAddLink(t, type, args)
    \/ \E t \in Tasks, ok \in BOOLEAN : AddLinkStep(t, ok)
    \/ \E t \in Tasks, type \in CommandChatTypes, args \in UpdateArgs :
          StartUpdateLink(t, type, args)
    \/ \E t \in Tasks, type \in CommandChatTypes : StartListLinks(t, type)
    \/ \E t \in Tasks, type \in CommandChatTypes : StartClearLinks(t, type)
    \/ \E t \in Tasks : StartScheduled(t)
    \/ \E t \in Tasks : StartPublishAll(t)
    \/ \E t \in Tasks, type \in CommandChatTypes, c \in ChatIds : StartPublishHere(t, type, c)
    \/ \E t \in Tasks, ok \in BOOLEAN : SendReturns(t, ok)
    \/ \E t \in Tasks, ok \in BOOLEAN : ReplyReturns(t, ok)
    \/ \E t \in Tasks, type \in ChatTypes, c \in ChatIds :
          \E title \in ChatTitles(c) : NewChatMembers(t, type, c, title)

Spec == Init /\ [][Next]_vars

\* The event loop resumes a task once the network call it awaits has returned
\* or raised, and the transport's timeouts make every such call do one or
\* the other.
FairSpec ==
    /\ Spec
    /\ \A t \in Tasks :
         /\ WF_vars(\E ok \in BOOLEAN : SendReturns(t, ok))
         /\ WF_vars(\E ok \in BOOLEAN : ReplyReturns(t, ok))

\* ------------------------------------------- the two variants side by side
\* Both programs are started on the same two files and are given the same
\* events, one event at a time (each handler runs to its end before the
\* next event; every reply and every send is delivered).  twin.scrape is
\* the state of bot.py, twin.api the state of bot_api.py.
VariantState(d) ==
    [link_queue |-> load_links(d[1]), links_file |-> d[1], chats_file |-> d[2],
     sent |-> <<>>, appended |-> Len(load_links(d[1]))]

\* The commands main() registers a handler for.
bot_commands ==
    {"publish", "addlink", "updatelink", "listlinks", "clearlinks", "testapi",
     "checklinkdata"}

bot_api_commands == {"publish", "addlink", "listlinks", "clearlinks", "testapi"}

Handles(v, command) ==
    command \in IF v = "scrape" THEN bot_commands ELSE bot_api_commands

\* What the network gives the resolvers for one /addlink: the redirect of a
\* short url leads to a product page; the product has details; the vendor
\* API returns a promotion link.
ResolverOutcomes == [id : BOOLEAN, details : BOOLEAN, affiliate : BOOLEAN]

\* extract_product_id: bot.py follows the redirects of a url that is not a
\* product page, bot_api.py applies the regular expression only.
ExtractProductId(v, url, r) ==
    IF v = "scrape" /\ ~IsItemUrl(url)
    THEN IF r.id THEN "2002" ELSE ""
    ELSE RegexItemId(url)

\* link_queue.append(new_link); save_links()
Appended(s, link, o) ==
    [s EXCEPT !.link_queue = append(@, link),
              !.links_file = save_links(append(s.link_queue, link), @, o),
              !.appended = @ + 1]

\* handle_add_link from its first line to its last
RunAddLink(v, s, type, args, r, o) ==
    IF ~Handles(v, "addlink") \/ ~IsPrivate(type) \/ args = <<>>
    THEN s
    ELSE LET url == args[1]
             product_id == ExtractProductId(v, url, r)
         IN  IF product_id = "" \/ ~r.details
             THEN s
             ELSE IF v = "scrape"
             THEN Appended(s, new_link(TitleOf(url), product_id, url, url,
                                       s.appended + 1), o)
             ELSE IF ~r.affiliate
             THEN s
             ELSE Appended(s, new_link(TitleOf(url), product_id, url,
                                       PromotionLink(url), s.appended + 1), o)

\* handle_update_link from its first line to its last; a command without a
\* handler is dropped by the dispatcher
RunUpdateLink(v, s, type, args, o) ==
    IF ~Handles(v, "updatelink") \/ ~IsPrivate(type) \/ Len(args) < MinUpdateArgs
    THEN s
    ELSE LET p == ParseInt(args[1])
             index == p.val - 1
         IN  IF \/ ~p.ok
                \/ BadIndex(index, Len(s.link_queue))
                \/ Position(index, Len(s.link_queue)) = 0
             THEN s
             ELSE LET queue == UpdateAt(s.link_queue, index, UpdateFields(args))
                  IN  [s EXCEPT !.link_queue = queue,
                                !.links_file = save_links(queue, @, o)]

\* handle_clear_links
RunClearLinks(v, s, type, o) ==
    IF ~Handles(v, "clearlinks") \/ ~IsPrivate(type)
    THEN s
    ELSE [s EXCEPT !.link_queue = clear(@),
                   !.links_file = save_links(clear(s.link_queue), @, o)]

\* send_real_deal_to_chat / send_deal_to_chat
RunSendToChat(s, chat, o) ==
    LET r == DequeueForChat(s.link_queue, s.links_file, o)
    IN  [s EXCEPT !.link_queue = r.queue,
                  !.links_file = r.file,
                  !.sent = IF r.deal = <<>> THEN @
                           ELSE Append(@, [chat |-> chat, text |-> Message(r.deal[1])])]

RECURSIVE RunSendToAll(_, _, _)
\* send_real_deals_to_all / send_deals_to_all
RunSendToAll(s, chats, o) ==
    IF chats = <<>> THEN s
    ELSE RunSendToAll(RunSendToChat(s, Head(chats)[1], o), Tail(chats), o)

\* handle_new_chat_members
RunNewChatMembers(s, type, c, title, o) ==
    IF type \notin GroupTypes
    THEN s
    ELSE LET chats == DictSet(load_chats(s.chats_file), Str(c), title)
         IN  [s EXCEPT !.chats_file = save_chats(chats, @, o)]

\* The next event is given to both programs; alike tells that every
\* /addlink so far was resolved in both or in neither.
Both(scrape, api) ==
    /\ twin.n < MaxEvents
    /\ twin' = [scrape |-> scrape, api |-> api, n |-> twin.n + 1,
                alike |-> twin.alike /\ scrape.appended = api.appended]
    /\ UNCHANGED <<variant, link_queue, links_file, chats_file, task, done,
                   lastSend, events, sent, dequeued, appended, cleared,
                   lastSaveOk, registered, chatsSaveOk, removed, startDoc>>

BothAddLink(type, args, r, o) ==
    Both(RunAddLink("scrape", twin.scrape, type, args, r, o),
         RunAddLink("api", twin.api, type, args, r, o))

BothUpdateLink(type, args, o) ==
    Both(RunUpdateLink("scrape", twin.scrape, type, args, o),
         RunUpdateLink("api", twin.api, type, args, o))

BothClearLinks(type, o) ==
    Both(RunClearLinks("scrape", twin.scrape, type, o),
         RunClearLinks("api", twin.api, type, o))

\* /publish from a private chat, or a tick of the timer
BothPublishAll(o) ==
    Both(RunSendToAll(twin.scrape, get_chats(twin.scrape.chats_file), o),
         RunSendToAll(twin.api, get_chats(twin.api.chats_file), o))

\* /publish from a group chat
BothPublishHere(c, o) ==
    Both(RunSendToChat(twin.scrape, c, o), RunSendToChat(twin.api, c, o))

BothNewChatMembers(type, c, title, o) ==
    Both(RunNewChatMembers(twin.scrape, type, c, title, o),
         RunNewChatMembers(twin.api, type, c, title, o))

VariantsInit ==
    /\ \E d \in InitDocs :
         twin = [scrape |-> VariantState(d), api |-> VariantState(d), n |-> 0,
                 alike |-> TRUE]
    /\ variant = "scrape"
    /\ links_file = AbsentDoc
    /\ chats_file = AbsentDoc
    /\ link_queue = <<>>
    /\ startDoc = AbsentDoc
    /\ removed = <<>>
    /\ lastSend = "none"
    /\ task = [t \in Tasks |-> IdleTask]
    /\ done = IdleTask
    /\ events = 0
    /\ sent = <<>>
    /\ dequeued = <<>>
    /\ appended = <<>>
    /\ cleared = FALSE
    /\ lastSaveOk = TRUE
    /\ registered = {}
    /\ chatsSaveOk = TRUE

VariantsNext ==
    \/ \E type \in CommandChatTypes, args \in AddArgs, r \in ResolverOutcomes,
          o \in SaveOutcomes : BothAddLink(type, args, r, o)
    \/ \E type \in CommandChatTypes, args \in UpdateArgs, o \in SaveOutcomes :
          BothUpdateLink(type, args, o)
    \/ \E type \in CommandChatTypes, o \in SaveOutcomes : BothClearLinks(type, o)
    \/ \E o \in SaveOutcomes : BothPublishAll(o)
    \/ \E c \in ChatIds, o \in SaveOutcomes : BothPublishHere(c, o)
    \/ \E type \in ChatTypes, c \in ChatIds, o \in SaveOutcomes :
          \E title \in ChatTitles(c) : BothNewChatMembers(type, c, title, o)

VariantsSpec == VariantsInit /\ [][VariantsNext]_vars

\* ================================================================ claims
PassKinds == {"scheduled", "publish_all"}

InFlight == {t \in Tasks : task[t].pc # "idle"}

Distinct(seq) == \A a, b \in 1..Len(seq) : a # b => seq[a] # seq[b]

SentUids == [k \in 1..Len(sent) |-> sent[k].uid]

Min(a, b) == IF a < b THEN a ELSE b

\* C1: as long as /clearlinks has not run, the records popleft has returned,
\* in the order it returned them, followed by the records in the queue, are
\* the records in the order in which they were appended.
C1_FIFO == ~cleared => appended = dequeued \o UidsOf(link_queue)

\* An /addlink appended record 3 behind two older ones and a dequeue took 1.
C1_Witness ==
    /\ ~cleared
    /\ dequeued = <<1>>
    /\ UidsOf(link_queue) = <<2, 3>>

\* C2: whenever the last save_links call wrote the file, load_links of the
\* file gives the queue in memory; this is stated of every state, so of every
\* point at which a handler is suspended.
C2_DurabilityRoundTrip == lastSaveOk => load_links(links_file) = link_queue

\* A pass is suspended in send_message after a dequeue that was written.
C2_Witness ==
    /\ lastSaveOk
    /\ links_file = JsonDoc(link_queue)
    /\ link_queue # <<>>
    /\ dequeued # <<>>
    /\ \E t \in Tasks : task[t].pc = "send" /\ task[t].kind \in PassKinds

\* C3: a pass that ran with no other event in flight, over a queue of n
\* records and m chats, has sent record i to chat i for i <= min(n, m) and
\* nothing else, and has left the last n - min(n, m) records in the queue.
C3_PassResult ==
    (done.kind \in PassKinds /\ done.solo) =>
        LET n == Len(done.start)
            m == Len(done.chats)
            k == Min(n, m)
            out == SubSeq(sent, done.sbase + 1, Len(sent))
        IN  /\ Len(out) = k
            /\ \A i \in 1..k :
                 /\ out[i].chat = done.chats[i][1]
                 /\ out[i].uid = done.start[i].uid
                 /\ out[i].text = Message(done.start[i])
            /\ link_queue = SubSeq(done.start, k + 1, n)

\* The pass of the first scenario: two records, two chats, queue empty after.
C3_Witness ==
    /\ done.kind = "scheduled"
    /\ done.solo
    /\ Len(done.start) = 2
    /\ Len(done.chats) = 2
    /\ Len(sent) = done.sbase + 2
    /\ link_queue = <<>>

\* C4: no record is dequeued or sent twice, no record is in the queue twice,
\* and a dequeued record is not in the queue.
C4_ConsumedOnce ==
    /\ Distinct(dequeued)
    /\ Distinct(SentUids)
    /\ Distinct(UidsOf(link_queue))
    /\ \A a \in 1..Len(dequeued), b \in 1..Len(link_queue) :
         dequeued[a] # link_queue[b].uid

\* Two tasks that dequeue are suspended in send_message at the same time.
C4_Witness ==
    /\ \A t \in Tasks : task[t].pc = "send"
    /\ \E t \in Tasks : task[t].kind \in PassKinds
    /\ Len(sent) = 2

\* The record of the send_message call task t is waiting for.
PendingUid(t) ==
    LET mine == SelectSeq(sent, LAMBDA e : e.slot = t)
    IN  mine[Len(mine)].uid

\* C5: in a step in which send_message raises for chat i of a pass, the
\* record it was called with is put back neither in the queue nor in the
\* file, and the pass goes on: it sends to chat i + 1, or it has found the
\* queue empty for every chat after i.
C5_AtMostOnce ==
    [][\A t \in Tasks :
         (task[t].pc = "send" /\ task[t].kind \in PassKinds
            /\ task'[t] # task[t] /\ lastSend' = "failed") =>
           LET uid == PendingUid(t)
               n == Len(task[t].chats)
               after == IF task'[t].pc = "idle" THEN done' ELSE task'[t]
           IN  /\ \A k \in 1..Len(link_queue') : link_queue'[k].uid # uid
               /\ (\A k \in 1..Len(load_links(links_file)) :
                      load_links(links_file)[k].uid # uid)
                    => (\A k \in 1..Len(load_links(links_file')) :
                          load_links(links_file')[k].uid # uid)
               /\ after.kind = task[t].kind
               /\ task[t].i < n =>
                    \/ after.pc = "send" /\ after.i = task[t].i + 1
                    \/ after.i = n /\ after.sawEmpty /\ link_queue = <<>>
               /\ task[t].i = n => after.i = n]_vars

\* send_message raised for chat 1 and the pass is sending to chat 2.
C5_Witness ==
    /\ lastSend = "failed"
    /\ \E t \in Tasks :
         /\ task[t].pc = "send"
         /\ task[t].kind \in PassKinds
         /\ task[t].i = 2

\* C6: a pass in which some chat found the queue empty is never waiting for
\* a send_message call afterwards: that chat and the chats after it get
\* nothing.
C6_NoReplenishment ==
    \A t \in Tasks :
      (task[t].kind \in PassKinds /\ task[t].sawEmpty) => task[t].pc # "send"

\* A pass has found the queue empty, is still in flight, and an /addlink has
\* appended a record meanwhile.
C6_Witness ==
    \E t \in Tasks :
      /\ task[t].kind = "publish_all"
      /\ task[t].sawEmpty
      /\ task[t].pc = "reply_try"
      /\ link_queue # <<>>

\* Task t is suspended and does not run in this step.
StaysSuspended(t) ==
    /\ task[t].pc # "idle"
    /\ [task'[t] EXCEPT !.solo = task[t].solo] = task[t]

\* C7 as stated: while a handler or a pass is suspended in a network call,
\* no step changes the link queue or the chat registry.
C7_Serialized ==
    [][\A t \in Tasks :
         StaysSuspended(t) => link_queue' = link_queue /\ chats_file' = chats_file]_vars

\* the awaits at which each kind of task can be suspended
AwaitPoints(kind) ==
    CASE kind = "scheduled" -> {"send"}
      [] kind = "publish_all" -> {"send", "reply_try"}
      [] kind = "publish_here" -> {"send"}
      [] kind = "addlink" ->
           IF variant = "scrape"
           THEN {"add_r1", "add_extract", "add_r2", "add_fetch"}
           ELSE {"add_r1", "add_r2", "add_r3"}
      [] OTHER -> {}

\* C7 as amended: tasks run concurrently, and a task in flight is suspended
\* at an await of a network call of its handler and nowhere else; a pass
\* that waits for send_message has taken its record out of the queue.
C7_SuspendedAtAwaits ==
    \A t \in InFlight :
      /\ task[t].pc \in AwaitPoints(task[t].kind)
      /\ task[t].pc = "send" =>
           /\ PendingUid(t) \in {dequeued[k] : k \in 1..Len(dequeued)}
           /\ \A k \in 1..Len(link_queue) : link_queue[k].uid # PendingUid(t)

\* An /addlink waits for the resolver while a pass waits for send_message.
C7_Witness ==
    \E t, u \in Tasks :
      /\ task[t].kind = "addlink"
      /\ task[t].pc \in {"add_fetch", "add_r3"}
      /\ task[u].kind \in PassKinds
      /\ task[u].pc = "send"

UpdatedKeys == {"title", "price", "original_price", "discount"}

\* C8: the step of an /updatelink that replies "updated" for position p
\* leaves the length of the queue and every other record as they were, and
\* in record p changes nothing but title, price, original_price, discount.
C8_UpdateFrame ==
    [][(done'.kind = "updatelink" /\ done'.reply = "updated") =>
         LET p == ParseInt(done'.args[1]).val
         IN  /\ p \in 1..Len(link_queue)
             /\ Len(link_queue') = Len(link_queue)
             /\ \A k \in 1..Len(link_queue) : k # p => link_queue'[k] = link_queue[k]
             /\ DOMAIN link_queue'[p] = DOMAIN link_queue[p] \cup UpdatedKeys
             /\ \A key \in DOMAIN link_queue[p] \ UpdatedKeys :
                  link_queue'[p][key] = link_queue[p][key]
             /\ \A key \in UpdatedKeys :
                  link_queue'[p][key] = UpdateFields(done'.args)[key]]_vars

\* Position 2 of a queue of two records has just been updated.
C8_Witness ==
    /\ done.kind = "updatelink"
    /\ done.reply = "updated"
    /\ done.args[1] = "2"
    /\ Len(link_queue) = 2
    /\ link_queue[2].title = "Desk"
    /\ link_queue[1].title # "Desk"

\* C9: an /updatelink from a private chat with five arguments whose position
\* is an integer below 1 or above the length of the queue replies
\* "invalid_number" and leaves the queue and the file as they were.
C9_OutOfRange ==
    [][(/\ done'.kind = "updatelink"
        /\ done'.type = "private"
        /\ Len(done'.args) >= MinUpdateArgs
        /\ ParseInt(done'.args[1]).ok
        /\ \/ ParseInt(done'.args[1]).val < 1
           \/ ParseInt(done'.args[1]).val > Len(link_queue))
         => /\ done'.reply = "invalid_number"
            /\ link_queue' = link_queue
            /\ links_file' = links_file]_vars

\* /updatelink 5 ... on a queue of two records has just been rejected.
C9_Witness ==
    /\ done.kind = "updatelink"
    /\ done.reply = "invalid_number"
    /\ done.args[1] = "5"
    /\ Len(link_queue) = 2

\* Task t finds the queue empty in this step (in a pass or a group /publish).
FindsEmpty(t) ==
    /\ ~task[t].sawEmpty
    /\ \/ task'[t].sawEmpty
       \/ done'.slot = t /\ done'.sawEmpty

\* C10: a step in which a dequeue attempt finds the queue empty leaves the
\* queue empty and the file as it was, and calls send_message for no chat.
C10_EmptyDequeue ==
    [][(\E t \in Tasks : FindsEmpty(t)) =>
         /\ link_queue = <<>>
         /\ link_queue' = <<>>
         /\ links_file' = links_file
         /\ sent' = sent
         /\ dequeued' = dequeued]_vars

\* A group /publish has just found the queue empty; the file was never there.
C10_Witness ==
    /\ done.kind = "publish_here"
    /\ done.sawEmpty
    /\ link_queue = <<>>
    /\ links_file = AbsentDoc

\* Task t, free before this step, is started as a handler of kind `kind`.
Starts(t, kind) ==
    /\ task[t].pc = "idle"
    /\ \/ task'[t].kind = kind
       \/ done'.kind = kind /\ done'.slot = t

\* C11: a /publish from a group chat takes the head of the queue, calls
\* send_message once, for the invoking chat, with that record, and leaves
\* the other records and the registry as they were; the return of that
\* send_message changes nothing more.
C11_GroupPublish ==
    [][\A t \in Tasks :
         /\ (Starts(t, "publish_here") /\ link_queue # <<>>) =>
              /\ task'[t].pc = "send"
              /\ link_queue' = Tail(link_queue)
              /\ sent' = Append(sent, SentEntry(t, task'[t].chats[1][1],
                                                Head(link_queue)))
              /\ dequeued' = Append(dequeued, Head(link_queue).uid)
              /\ chats_file' = chats_file
         /\ (task[t].kind = "publish_here" /\ ~StaysSuspended(t)) =>
              /\ done'.kind = "publish_here"
              /\ done'.chats = task[t].chats
              /\ UNCHANGED <<link_queue, links_file, sent, dequeued, chats_file>>]_vars

\* A group that is not in the registry asked for a record and record 1 of
\* two was sent to it.
C11_Witness ==
    /\ chats_file = AbsentDoc
    /\ UidsOf(link_queue) = <<2>>
    /\ Len(sent) = 1
    /\ sent[1].uid = 1
    /\ sent[1].chat = 2
    /\ \E t \in Tasks : task[t].kind = "publish_here" /\ task[t].pc = "send"

\* C12: a /clearlinks from a private chat leaves the queue empty whatever
\* was in it and, when save_links writes the file, the file holds the empty
\* array; run on an empty queue and a file holding the empty array it leaves
\* both as they were.
C12_ClearEmpties ==
    [][(done'.kind = "clearlinks" /\ done'.type = "private") =>
         /\ done'.reply = "cleared"
         /\ link_queue' = <<>>
         /\ done'.saved = "ok" =>
              /\ links_file' = JsonDoc(<<>>)
              /\ load_links(links_file') = <<>>
              /\ (link_queue = <<>> /\ links_file = JsonDoc(<<>>)) =>
                    UNCHANGED <<link_queue, links_file>>]_vars

\* A second /clearlinks has run: the queue it found was empty although
\* records had been appended and none dequeued.
C12_Witness ==
    /\ done.kind = "clearlinks"
    /\ done.reply = "cleared"
    /\ done.saved = "ok"
    /\ done.start = <<>>
    /\ Len(appended) = 2
    /\ dequeued = <<>>
    /\ links_file = JsonDoc(<<>>)

\* Task t runs in this step as the /addlink handler.
AddLinkActs(t) ==
    \/ Starts(t, "addlink")
    \/ task[t].kind = "addlink" /\ ~StaysSuspended(t)

\* C13: a step of /addlink either leaves the queue and the file as they
\* were, or it is the step that confirms the addition, and then the queue
\* is the old one followed by one record with the keys title, product_id,
\* url and affiliate_link, all resolved; every failure reply is of the first
\* kind.
C13_NoPartialRecord ==
    [][\A t \in Tasks : AddLinkActs(t) =>
         IF done'.kind = "addlink" /\ done'.slot = t /\ done'.reply = "added"
         THEN LET url == done'.args[1]
                  n == Len(link_queue)
                  rec == link_queue'[n + 1]
              IN  /\ Len(link_queue') = n + 1
                  /\ SubSeq(link_queue', 1, n) = link_queue
                  /\ DOMAIN rec = {"title", "product_id", "url", "affiliate_link", "uid"}
                  /\ rec.title = TitleOf(url)
                  /\ rec.product_id = done'.pid
                  /\ rec.product_id # ""
                  /\ rec.url = url
                  /\ rec.affiliate_link =
                       IF variant = "scrape" THEN url ELSE PromotionLink(url)
         ELSE UNCHANGED <<link_queue, links_file>>]_vars

\* The API variant has appended a third record with its promotion link.
C13_Witness ==
    /\ variant = "api"
    /\ done.kind = "addlink"
    /\ done.reply = "added"
    /\ UidsOf(link_queue) = <<1, 2, 3>>
    /\ link_queue[3].affiliate_link = PromotionLink(DirectUrl)

\* the strings int() accepts among the positions tried
IsNumeral(s) == s \in {"-1", "0", "1", "2", "3", "4", "5"}

\* C14: an /updatelink from a private chat with fewer than five arguments
\* replies with the usage text, one whose first argument is no integer ends
\* in the except clause and its error reply; both leave the queue and the
\* file as they were.
C14_MalformedUpdate ==
    [][(/\ done'.kind = "updatelink"
        /\ done'.type = "private"
        /\ \/ Len(done'.args) < MinUpdateArgs
           \/ ~IsNumeral(done'.args[1]))
         => /\ UNCHANGED <<link_queue, links_file>>
            /\ IF Len(done'.args) < MinUpdateArgs
               THEN done'.reply = "usage_update" /\ ~done'.caught
               ELSE done'.caught]_vars

\* /updatelink x ... on a queue of two records ended in the except clause.
C14_Witness ==
    /\ done.kind = "updatelink"
    /\ Len(done.args) = MinUpdateArgs
    /\ done.args[1] = "x"
    /\ done.caught
    /\ Len(link_queue) = 2

GatedKinds == {"listlinks", "clearlinks", "addlink", "updatelink"}

\* C15: /listlinks, /clearlinks, /addlink and /updatelink from a chat that
\* is not private reply with the permission text and leave the queue and
\* the file as they were.
C15_PrivateOnly ==
    [][(done'.kind \in GatedKinds /\ done'.type # "private") =>
         /\ done'.reply = "private_only"
         /\ UNCHANGED <<link_queue, links_file>>]_vars

\* A /clearlinks from a group was refused and two records are still queued.
C15_Witness ==
    /\ done.kind = "clearlinks"
    /\ done.type = "group"
    /\ done.reply = "private_only"
    /\ Len(link_queue) = 2
    /\ links_file = JsonDoc(link_queue)

\* the chat-id strings of the registry a document holds
PersistedKeys(doc) ==
    IF doc.kind = "json" THEN {doc.val[k][1] : k \in 1..Len(doc.val)} ELSE {}

\* C16: a registration whose write succeeds leaves a registry with exactly
\* one entry for the chat, carrying the title just seen, every other entry
\* where it was, written to the file in the same step; if the chat was
\* there with that title the registry is the one it was.
C16_IdempotentUpsert ==
    [][(done'.kind = "register" /\ done'.type \in GroupTypes /\ done'.saved = "ok") =>
         LET old == load_chats(chats_file)
             new == chats_file'.val
             key == done'.args[1]
             title == done'.args[2]
         IN  /\ chats_file'.kind = "json"
             /\ Cardinality({k \in 1..Len(new) : new[k][1] = key}) = 1
             /\ \A k \in 1..Len(new) : new[k][1] = key => new[k][2] = title
             /\ \A k \in 1..Len(old) : old[k][1] # key => new[k] = old[k]
             /\ Len(new) = IF key \in PersistedKeys(chats_file)
                           THEN Len(old) ELSE Len(old) + 1
             /\ (\E k \in 1..Len(old) : old[k] = <<key, title>>) => new = old]_vars

\* Chat 1, renamed since startup, was registered a second time with its new
\* title: the registry read by the handler is the registry it wrote.
C16_Witness ==
    /\ done.kind = "register"
    /\ done.saved = "ok"
    /\ done.args = <<"1", "G1 new">>
    /\ done.chats = <<<<"1", "G1 new">>, <<"2", "G2">>>>
    /\ chats_file = JsonDoc(done.chats)

\* C17: as long as every save_chats call has written the file, every chat
\* the bot was added to (or found in the file at startup) has its entry in
\* the file, in every reachable state, so under every interleaving of
\* registrations with each other and with passes.
C17_NoLostRegistration ==
    chatsSaveOk => \A c \in registered : Str(c) \in PersistedKeys(chats_file)

\* Chats 2 and 1 were registered, in this order, on an empty registry.
C17_Witness ==
    /\ chatsSaveOk
    /\ registered = {1, 2}
    /\ chats_file = JsonDoc(<<<<"2", "G2">>, <<"1", "G1 new">>>>)

\* the chats of the snapshot a pass took when task t started it in this step
StartedSnapshot(t) ==
    LET snap == IF task'[t].pc # "idle" THEN task'[t].chats ELSE done'.chats
    IN  {snap[k][1] : k \in 1..Len(snap)}

\* C18: as long as every save_chats call has written the file, no step
\* takes a chat out of the registry, and a pass that starts takes a snapshot
\* that holds every chat ever registered.
C18_NeverShrinks ==
    [][chatsSaveOk' =>
         /\ PersistedKeys(chats_file) \subseteq PersistedKeys(chats_file')
         /\ \A t \in Tasks :
              (Starts(t, "scheduled") \/ Starts(t, "publish_all")) =>
                 registered \subseteq StartedSnapshot(t)]_vars

\* Chat 1 joined an empty registry and a later pass is sending to it.
C18_Witness ==
    /\ chatsSaveOk
    /\ registered = {1}
    /\ \E t \in Tasks :
         /\ task[t].kind \in PassKinds
         /\ task[t].pc = "send"
         /\ task[t].chats = <<<<1, "G1 new">>>>

\* C19: under the event loop's fairness every pass in flight ends (its task
\* is free again); each of its steps moves on to a later chat of the
\* snapshot and dequeues at most one record, and the return of a
\* send_message call, failed or not, ends the task or moves it to a later chat; no exception leaves the timer job, and once a pass has
\* ended a new event (a timer tick among them) can start.
C19_PassCompletes ==
    /\ \A t \in Tasks : (task[t].kind \in PassKinds) ~> (task[t].pc = "idle")
    /\ [][\A t \in Tasks :
            (task[t].kind \in PassKinds /\ ~StaysSuspended(t)) =>
               /\ Len(dequeued') <= Len(dequeued) + 1
               /\ IF task'[t].pc = "send"
                  THEN /\ task'[t].i > task[t].i
                       /\ task'[t].i <= Len(task[t].chats)
                       /\ task'[t].chats = task[t].chats
                  ELSE dequeued' = dequeued]_vars
    /\ [][lastSend' # "none" =>
            \E t \in Tasks :
              /\ task[t].pc = "send"
              /\ task'[t].pc # "send" \/ task'[t].i > task[t].i]_vars
    /\ [](done.kind \in PassKinds =>
            /\ done.kind = "scheduled" => ~done.escaped
            /\ events < MaxEvents => \E t \in Tasks : CanStart(t))

\* A timer pass over two chats has ended in the step in which its last
\* send_message raised.
C19_Witness ==
    /\ done.kind = "scheduled"
    /\ lastSend = "failed"
    /\ Len(done.chats) = 2
    /\ done.i = 2
    /\ Len(sent) = 2

\* C20 as stated: after an /addlink whose save_links call failed, the record
\* is in the queue and the reply is not the plain confirmation.
C20_WriteFailureReported ==
    (done.kind = "addlink" /\ done.saved \in {"open_failed", "write_failed"}) =>
        /\ link_queue # <<>>
        /\ link_queue[Len(link_queue)].url = done.args[1]
        /\ done.reply # "added"

HandlerKinds ==
    {"addlink", "updatelink", "listlinks", "clearlinks", "publish_all",
     "publish_here", "register"}

\* C21 as stated: no exception leaves a command handler, and a handler whose
\* except clause ran has sent its error reply.
C21_NoEscape == done.kind \in HandlerKinds => ~done.escaped

\* the frame of task t after this step, in which it ran
FrameAfter(t) == IF task'[t].pc # "idle" THEN task'[t] ELSE done'

\* C23: a pass that starts takes get_chats() of the registry file as its
\* snapshot and keeps it to its end whatever is registered meanwhile; each
\* time it runs it goes on to the next chat of the snapshot and calls
\* send_message for it, or it has found the queue empty and is past the
\* last chat.
C23_SnapshotPass ==
    [][\A t \in Tasks :
         /\ (Starts(t, "scheduled") \/ Starts(t, "publish_all")) =>
              /\ FrameAfter(t).chats = get_chats(chats_file)
              /\ FrameAfter(t).pc = "send" => FrameAfter(t).i = 1
         /\ (task[t].kind \in PassKinds /\ StaysSuspended(t)) =>
              task'[t].chats = task[t].chats
         /\ (task[t].kind \in PassKinds /\ ~StaysSuspended(t)) =>
              /\ FrameAfter(t).chats = task[t].chats
              /\ FrameAfter(t).pc = "send" => FrameAfter(t).i = task[t].i + 1
         /\ ((Starts(t, "scheduled") \/ Starts(t, "publish_all")
                \/ (task[t].kind \in PassKinds /\ ~StaysSuspended(t)))) =>
              LET tk == FrameAfter(t)
              IN  IF tk.pc = "send"
                  THEN /\ Len(sent') = Len(sent) + 1
                       /\ sent'[Len(sent')].chat = tk.chats[tk.i][1]
                       /\ sent'[Len(sent')].slot = t
                  ELSE /\ sent' = sent
                       /\ tk.i = Len(tk.chats)]_vars

\* A pass over the one chat of its snapshot has ended; chat 2 was registered
\* while it ran and got nothing, a record is still queued.
C23_Witness ==
    /\ done.kind \in PassKinds
    /\ done.chats = <<<<1, "G1">>>>
    /\ "2" \in PersistedKeys(chats_file)
    /\ Len(sent) = 1
    /\ sent[1].chat = 1
    /\ Len(link_queue) = 1

RECURSIVE JoinWords(_)
\* the words of a title as the text that was typed
JoinWords(words) ==
    IF Len(words) = 1 THEN words[1]
    ELSE words[1] \o " " \o JoinWords(Tail(words))

\* a discount as a percentage
Percent(d) == IF d = "75%" THEN d ELSE d \o "%"

\* C24 as stated: after a well-formed /updatelink for a position of the
\* queue, the record at that position has the title, the price and original
\* price (with the currency sign) and the discount of the message.
C24_UpdateStores ==
    [][\A inv \in UpdateInvocations :
         (/\ done'.kind = "updatelink"
          /\ done'.type = "private"
          /\ done'.args = CommandArgs(inv)
          /\ IsNumeral(inv.number)
          /\ ParseInt(inv.number).val \in 1..Len(link_queue))
         => LET rec == link_queue'[ParseInt(inv.number).val]
            IN  /\ done'.reply = "updated"
                /\ rec.title = JoinWords(inv.title)
                /\ rec.price = "₪" \o inv.price
                /\ rec.original_price = "₪" \o inv.original_price
                /\ rec.discount = Percent(inv.discount)]_vars

\* how often uid is in seq
Occurrences(seq, uid) == Cardinality({k \in 1..Len(seq) : seq[k] = uid})

\* C25: every record ever in the queue (loaded at startup or appended by
\* /addlink) is in exactly one place: still in the queue, dequeued by one
\* send attempt, or removed by /clearlinks; so the length of the queue is
\* the number appended minus the number dequeued minus the number removed,
\* and the queue holds no record that was not appended or loaded.
C25_Conservation ==
    /\ Distinct(appended)
    /\ \A k \in 1..Len(appended) :
         Occurrences(UidsOf(link_queue), appended[k])
           + Occurrences(dequeued, appended[k])
           + Occurrences(removed, appended[k]) = 1
    /\ \A k \in 1..Len(link_queue) :
         Occurrences(appended, link_queue[k].uid) = 1
    /\ \A k \in 1..Len(dequeued) :
         /\ Occurrences(appended, dequeued[k]) = 1
         /\ Occurrences(SentUids, dequeued[k]) = 1
    /\ \A k \in 1..Len(removed) : Occurrences(appended, removed[k]) = 1
    /\ Len(link_queue) = Len(appended) - Len(dequeued) - Len(removed)

\* Of three records, one appended by /addlink, the first was dequeued by a
\* send attempt and the other two are in the queue.
C25_WitnessAdded ==
    /\ Len(appended) = 3
    /\ dequeued = <<1>>
    /\ UidsOf(link_queue) = <<2, 3>>
    /\ done.kind = "addlink"
    /\ done.reply = "added"

\* Of two records the first was dequeued by a send attempt and /clearlinks
\* removed the second.
C25_Witness ==
    /\ Len(appended) = 2
    /\ dequeued = <<1>>
    /\ removed = <<2>>
    /\ link_queue = <<>>

\* C26: in the scraping variant the record /addlink appends has url and
\* affiliate_link equal to the url of the message; no step changes the url,
\* product_id or affiliate_link of a record that stays in the queue; every
\* record of the queue has affiliate_link = url; and the message a send
\* attempt sends carries the url of the record it dequeued.
C26_AffiliateIsUrl ==
    /\ [](variant = "scrape" =>
            \A k \in 1..Len(link_queue) :
              link_queue[k].affiliate_link = link_queue[k].url)
    /\ [][variant = "scrape" =>
            /\ \A a \in 1..Len(link_queue), b \in 1..Len(link_queue') :
                 link_queue'[b].uid = link_queue[a].uid =>
                   /\ link_queue'[b].url = link_queue[a].url
                   /\ link_queue'[b].product_id = link_queue[a].product_id
                   /\ link_queue'[b].affiliate_link = link_queue[a].affiliate_link
            /\ Len(appended') > Len(appended) =>
                 LET rec == link_queue'[Len(link_queue')]
                 IN  /\ done'.kind = "addlink"
                     /\ rec.uid = appended'[Len(appended')]
                     /\ rec.url = done'.args[1]
                     /\ rec.affiliate_link = done'.args[1]
            /\ sent' # sent =>
                 /\ link_queue # <<>>
                 /\ Len(sent') = Len(sent) + 1
                 /\ sent'[Len(sent')].uid = Head(link_queue).uid
                 /\ sent'[Len(sent')].text[2] = Head(link_queue).url]_vars

\* The scraping variant started with no file, /addlink appended the record
\* for the short url and a pass has sent it with that url.
C26_Witness ==
    /\ variant = "scrape"
    /\ startDoc = AbsentDoc
    /\ appended = <<1>>
    /\ Len(sent) = 1
    /\ sent[1].uid = 1
    /\ sent[1].text = <<TitleOf(ShortUrl), ShortUrl>>

\* the handlers that change the queue and save it before their last reply
SavingKinds == {"addlink", "updatelink", "clearlinks"}

\* C27: when affiliate_links.json does not parse at startup, the process
\* starts with an empty queue and the file as it was; while the file is
\* still the one found at startup, a step that changes it leaves the saved
\* in-memory queue or a truncated file, and a handler whose save_links
\* wrote the file leaves exactly the in-memory queue in it, which is not
\* the document found at startup, and holds only records appended since
\* (the claim is read for writes that succeed).
C27_DamagedStart ==
    /\ []((events = 0 /\ startDoc.kind = "corrupt") =>
            /\ link_queue = <<>>
            /\ links_file = startDoc
            /\ ~done.escaped)
    /\ [][(startDoc.kind = "corrupt" /\ links_file = startDoc) =>
            /\ links_file' # links_file =>
                 links_file' \in {JsonDoc(link_queue'), CorruptDoc}
            /\ (done'.kind \in SavingKinds /\ done'.saved = "ok") =>
                 /\ links_file' = JsonDoc(link_queue')
                 /\ links_file' # startDoc
                 /\ \A k \in 1..Len(links_file'.val) :
                      Occurrences(appended', links_file'.val[k].uid) = 1]_vars

\* The file holding two records did not parse at startup; the first
\* operation, an /addlink, has replaced it by the queue of one new record.
C27_Witness ==
    /\ startDoc = DamagedDoc(FullQueue)
    /\ events = 1
    /\ done.kind = "addlink"
    /\ done.saved = "ok"
    /\ Len(link_queue) = 1
    /\ links_file = JsonDoc(link_queue)

\* what the claim compares of a queue: its records without the resolved
\* title and affiliate link
QueueShape(queue) ==
    [k \in 1..Len(queue) |->
       [key \in DOMAIN queue[k] \ {"title", "affiliate_link"} |-> queue[k][key]]]

\* what the claim compares of the messages sent: the chats, in order
SendShape(log) == [k \in 1..Len(log) |-> log[k].chat]

\* C22 as stated: started on the same files and given the same commands,
\* timer ticks and registrations, with every /addlink resolved in both
\* variants or in neither, bot.py and bot_api.py have the same registry,
\* the same queue but for titles and affiliate links, and have sent their
\* messages to the same chats in the same order.
C22_VariantsEquivalent ==
    twin.alike =>
      /\ QueueShape(twin.scrape.link_queue) = QueueShape(twin.api.link_queue)
      /\ QueueShape(load_links(twin.scrape.links_file))
           = QueueShape(load_links(twin.api.links_file))
      /\ load_chats(twin.scrape.chats_file) = load_chats(twin.api.chats_file)
      /\ SendShape(twin.scrape.sent) = SendShape(twin.api.sent)

====
